---- MODULE Spec2Model ----
(***************************************************************************)
(* Job admission and execution scheduler of api_server.py.                 *)
(*                                                                         *)
(* Threads of the program:                                                 *)
(*   - the event loop, which runs the async handlers (start_translation,   *)
(*     job_status, download); a handler gives the loop up only at an await *)
(*   - one worker thread per started job, running background_translation   *)
(*     and, inside it, process_queue                                       *)
(*   - one daemon thread per started job, running simulate_progress        *)
(* The threads share the dict `jobs` and the list `job_queue` without any  *)
(* lock, so a step of the model is one access to that shared state (a      *)
(* statement, or a run of statements whose other accesses are thread       *)
(* local).  Under the interpreter lock one thread runs at a time; a thread *)
(* gives the processor up where it blocks (run_pipeline, time.sleep, an    *)
(* await, its end) and can be preempted anywhere else.  The model bounds   *)
(* the number of preemptions of a behaviour by MaxPreempt.                 *)
(***************************************************************************)
EXTENDS Integers, Sequences, FiniteSets, TLC

\* ---- program constants ----
MAX_CONCURRENT_JOBS == 2
RetentionWindow == 3600
MemoryRejectThreshold == 85
NoPosition == 0

\* ---- bounds of the model ----
MaxJobs == 3
MaxTicks == 2
MaxLine == 1
MaxPending == 1
MaxPreempt == 1
MaxReporting == 1
MaxFailing == 1
MaxFileLines == 3

\* the scheduler alone is explored with one job more
SchedJobs == MaxJobs + 1
JobIds == 1..SchedJobs
MemSamples == {MemoryRejectThreshold, MemoryRejectThreshold + 1}

VARIABLES
    jobs,        \* the dict jobs: job id -> record (a dict whose keys vary)
    job_queue,   \* the list job_queue, as the sequence of its entries' job ids
    now,         \* time.time(), in seconds
    nextId,      \* the next uuid4 to hand out
    pending,     \* submissions suspended at the await of the upload read
    loop,        \* what the event loop is in the middle of
    worker,      \* job id -> the background_translation thread of that job
    reporter,    \* job id -> the simulate_progress thread of that job
    inputs,      \* job ids whose input files (pptx, glossary) are on disk
    enq,         \* history: job ids in the order they were appended to job_queue
    resp,        \* the HTTP response sent by the step just taken, if any
    cur,         \* the thread that holds the processor in the middle of its code
    preempts,    \* preemptions so far
    files,       \* whose content the working directories input/ and output/ hold
    pipe,        \* job id -> how far its run_pipeline call is, and its result
    pf           \* the call of process_file (Backend/translate_all.py) under way

vars == <<jobs, job_queue, now, nextId, pending, loop, worker, reporter, inputs, enq, resp,
          cur, preempts, files, pipe, pf>>

\* ---- values ----
Msg(kind, a, b) == [kind |-> kind, a |-> a, b |-> b]
MsgStarting == Msg("Starting translation...", 0, 0)
MsgComplete == Msg("Translation complete. Ready to download.", 0, 0)
MsgQueued(k, n) == Msg("Queued: Position", k, n)
MsgLine(n) == Msg("Processing line", n, 0)

\* str(e) of the exceptions the worker can catch
ExcNone == ""
ExcPipeline == "pipeline failure"
ExcKeyError == "job_id"
ExcIndexError == "pop from empty list"
ExcRuntimeError == "dictionary changed size during iteration"
ExcThreadError == "can't start new thread"
ExcArguments == "process_file() takes 3 positional arguments but 4 were given"
ExcNotIterable == "argument of type 'int' is not iterable"
Exceptions == {ExcPipeline, ExcKeyError, ExcIndexError, ExcRuntimeError, ExcThreadError}
MsgError(e) == Msg("Error: " \o e, 0, 0)

NoPath == <<>>
OutputPath(j) == <<"/tmp", j, "_output">>

IdleLoop == [pc |-> "idle", job |-> 0, active |-> 0]
NoWorker == [pc |-> "none", site |-> "none", avail |-> 0, popped |-> 0, idx |-> 0, n0 |-> 0, exc |-> ExcNone]
NoReporter == [pc |-> "none", line |-> 0]
\* a response; a key the response does not carry is Absent, op "" is no response
Absent == << >>
Some(n) == <<n>>
\* the directories input/ and output/ of run_pipeline before any run, and a
\* run_pipeline call that has not begun
NoFiles == [input |-> Absent, output |-> Absent]
NoPipe == [pc |-> "none", result |-> Absent]

NoCall == [pc |-> "idle", nargs |-> 0, input |-> << >>, i |-> 0, out |-> << >>,
           processed_count |-> 0, result |-> Absent, exc |-> ExcNone]
NoResp == [op |-> "", code |-> 0, detail |-> "", job |-> 0, status |-> "", message |-> Msg("", 0, 0),
           output |-> NoPath, current_line |-> Absent, queue_position |-> Absent,
           queue_length |-> Absent]

\* ---- scheduling ----
NoThread == <<"none", 0>>
LoopThread == <<"loop", 0>>
WorkerThread(j) == <<"worker", j>>
ReporterThread(j) == <<"reporter", j>>

\* where a thread blocks or has no code to run
LoopYields == {"idle"}
WorkerYields == {"none", "scheduled", "pipeline", "finished", "crashed"}
ReporterYields == {"none", "sleep", "stopped", "crashed"}

\* Thread t takes a step and ends it blocked (atYield) or not.  Running t
\* while another thread is in the middle of its code preempts that thread.
Sched(t, atYield) ==
    /\ cur \in {t, NoThread} \/ preempts < MaxPreempt
    /\ preempts' = IF cur \in {t, NoThread} THEN preempts ELSE preempts + 1
    /\ cur' = IF atYield THEN NoThread ELSE t

\* dict helpers
Put(d, k, v) == [x \in (DOMAIN d) \cup {k} |-> IF x = k THEN v ELSE d[x]]
Del(d, ks) == [x \in (DOMAIN d) \ ks |-> d[x]]
SetField(d, j, f, v) == [d EXCEPT ![j] = Put(d[j], f, v)]

\* sum(1 for job in jobs.values() if job.get('status') == 'processing')
ActiveJobs(js) == Cardinality({j \in DOMAIN js : js[j].status = "processing"})


\* the test of line 370 with >= in place of >
Expired_at_window(js, t) ==
    {j \in DOMAIN js : "created_time" \in DOMAIN js[j] /\ t - js[j].created_time >= RetentionWindow}

\* cleanup_old_jobs: the store after the sweep at time t
Expired(js, t) == {j \in DOMAIN js : "created_time" \in DOMAIN js[j] /\ t - js[j].created_time > RetentionWindow}
\* a sweep that spares the jobs still queued or processing
cleanup_old_jobs_finished_only(js, t) ==
    Del(js, {j \in Expired(js, t) : js[j].status \in {"done", "error"}})

\* a sweep that stamps every surviving record with the time of the sweep
cleanup_old_jobs_restamps(js, t) ==
    Del([j \in DOMAIN js |-> Put(js[j], "created_time", t)], Expired(js, t))

cleanup_old_jobs(js, t) ==
    LET stamped == [j \in DOMAIN js |->
                      IF "created_time" \in DOMAIN js[j] THEN js[j] ELSE Put(js[j], "created_time", t)]
    IN Del(stamped, Expired(js, t))

\* Line 377: the value cleanup_old_jobs returns
cleanup_old_jobs_count(js, t) == Cardinality(Expired(js, t))

\* check_system_resources with a threshold one point too high
check_system_resources_high(mem) == ~(mem > MemoryRejectThreshold + 1)

\* check_system_resources that rejects at the threshold itself
check_system_resources_strict(mem) == ~(mem >= MemoryRejectThreshold)

\* check_system_resources with the comparison of line 383 turned round
check_system_resources_inverted(mem) == mem > MemoryRejectThreshold

\* check_system_resources
check_system_resources(mem) == ~(mem > MemoryRejectThreshold)

Init ==
    /\ jobs = << >>
    /\ job_queue = << >>
    /\ now = 0
    /\ nextId = 1
    /\ pending = {}
    /\ loop = IdleLoop
    /\ worker = [j \in JobIds |-> NoWorker]
    /\ reporter = [j \in JobIds |-> NoReporter]
    /\ inputs = {}
    /\ enq = << >>
    /\ resp = NoResp
    /\ cur = NoThread
    /\ preempts = 0
    /\ files = NoFiles
    /\ pipe = [j \in JobIds |-> NoPipe]
    /\ pf = NoCall

\* Every thread is blocked.
Quiet ==
    /\ loop.pc \in LoopYields
    /\ \A j \in JobIds : worker[j].pc \in WorkerYields
    /\ \A j \in 1..MaxReporting : reporter[j].pc \in ReporterYields

\* The clock advances by one retention window at a time, while every thread
\* is blocked: only run_pipeline, the sleeps and the waits last that long.
Tick ==
    /\ Quiet
    /\ now + RetentionWindow <= MaxTicks * RetentionWindow
    /\ now' = now + RetentionWindow
    /\ UNCHANGED <<jobs, job_queue, nextId, pending, loop, worker, reporter, inputs, enq,
                   cur, preempts, files, pipe, pf>>
    /\ resp' = NoResp

\* ---- the event loop: POST /start-translation ----

\* Lines 217-231: sweep old jobs, check memory, draw the job id, and suspend
\* at the await of the upload read.  A rejected submission has swept too.
\* mem is the memory_percent read at line 382.
ST_Check(mem, maxJobs) ==
    /\ loop.pc = "idle"
    /\ jobs' = cleanup_old_jobs(jobs, now)
    /\ IF ~check_system_resources(mem)
       THEN /\ resp' = [NoResp EXCEPT !.op = "start", !.code = 503, !.detail = "System busy"]
            /\ UNCHANGED <<nextId, pending>>
       ELSE /\ nextId <= maxJobs
            /\ Cardinality(pending) < MaxPending
            /\ pending' = pending \cup {nextId}
            /\ nextId' = nextId + 1
            /\ resp' = NoResp
    /\ UNCHANGED <<job_queue, now, loop, worker, reporter, inputs, enq>>
    /\ Sched(LoopThread, loop'.pc \in LoopYields)
    /\ UNCHANGED <<files, pipe, pf>>

ST_Begin(maxJobs) == \E mem \in MemSamples : ST_Check(mem, maxJobs)

\* Lines 229-289: the upload has been read; the input files are written and
\* the processing records are counted.  No await from here to the return.
ST_Resume ==
    \E j \in pending :
        /\ loop.pc = "idle"
        /\ pending' = pending \ {j}
        /\ inputs' = inputs \cup {j}
        /\ loop' = [pc |-> "admit", job |-> j, active |-> ActiveJobs(jobs)]
        /\ UNCHANGED <<jobs, job_queue, now, nextId, worker, reporter, enq>>
        /\ Sched(LoopThread, loop'.pc \in LoopYields)
        /\ UNCHANGED <<files, pipe, pf>>
        /\ resp' = NoResp

\* Lines 291-317: create the record, processing or queued.  A job that starts
\* at once gets its response (line 330) here: the task added at lines 301-304
\* runs once the response has been sent, and until then no other thread
\* touches the new record.
ST_Insert ==
    /\ loop.pc = "admit"
    /\ IF loop.active < MAX_CONCURRENT_JOBS
       THEN /\ jobs' = Put(jobs, loop.job,
                           [status |-> "processing", message |-> MsgStarting,
                            output_path |-> NoPath, created_time |-> now])
            /\ resp' = [NoResp EXCEPT !.op = "start", !.code = 200, !.job = loop.job,
                                      !.status = "processing", !.message = MsgStarting]
            /\ worker' = [worker EXCEPT ![loop.job] = [NoWorker EXCEPT !.pc = "scheduled"]]
            /\ loop' = IdleLoop
       ELSE LET queue_position == Len(job_queue) + 1
            IN /\ jobs' = Put(jobs, loop.job,
                              [status |-> "queued",
                               message |-> MsgQueued(queue_position, queue_position),
                               output_path |-> NoPath, created_time |-> now,
                               queue_position |-> queue_position])
               /\ loop' = [loop EXCEPT !.pc = "append"]
               /\ resp' = NoResp
               /\ UNCHANGED worker
    /\ UNCHANGED <<job_queue, now, nextId, pending, reporter, inputs, enq>>
    /\ Sched(LoopThread, loop'.pc \in LoopYields)
    /\ UNCHANGED <<files, pipe, pf>>

\* Lines 319-326: job_queue.append
ST_Append ==
    /\ loop.pc = "append"
    /\ job_queue' = Append(job_queue, loop.job)
    /\ enq' = Append(enq, loop.job)
    /\ loop' = [loop EXCEPT !.pc = "return"]
    /\ UNCHANGED <<jobs, now, nextId, pending, worker, reporter, inputs>>
    /\ Sched(LoopThread, loop'.pc \in LoopYields)
    /\ UNCHANGED <<files, pipe, pf>>
    /\ resp' = NoResp

\* Line 330: the response of a submission that was queued.
ST_Return ==
    /\ loop.pc = "return"
    /\ resp' = [NoResp EXCEPT !.op = "start", !.code = 200, !.job = loop.job,
                              !.status = jobs[loop.job].status,
                              !.message = jobs[loop.job].message]
    /\ loop' = IdleLoop
    /\ UNCHANGED <<jobs, job_queue, now, nextId, pending, worker, reporter, inputs, enq>>
    /\ Sched(LoopThread, loop'.pc \in LoopYields)
    /\ UNCHANGED <<files, pipe, pf>>

\* ---- the event loop: GET /job-status and GET /download ----

\* Lines 332-353: the response of job_status
job_status(j) ==
    IF j \notin DOMAIN jobs
    THEN [NoResp EXCEPT !.op = "status", !.code = 404, !.detail = "Job not found", !.job = j]
    ELSE LET job == jobs[j]
             queued == job.status = "queued" /\ "queue_position" \in DOMAIN job
         IN [NoResp EXCEPT !.op = "status", !.code = 200, !.job = j,
                           !.status = job.status, !.message = job.message,
                           !.current_line = IF "current_line" \in DOMAIN job
                                            THEN Some(job.current_line) ELSE Absent,
                           !.queue_position = IF queued THEN Some(job.queue_position) ELSE Absent,
                           !.queue_length = IF queued THEN Some(Len(job_queue)) ELSE Absent]

\* Lines 355-360: the response of download.  FileResponse(None) fails when the
\* response is sent, which the client sees as a 500.
download(j) ==
    IF j \notin DOMAIN jobs \/ jobs[j].status # "done"
    THEN [NoResp EXCEPT !.op = "download", !.code = 404, !.detail = "File not ready", !.job = j]
    ELSE IF jobs[j].output_path = NoPath
         THEN [NoResp EXCEPT !.op = "download", !.code = 500, !.job = j]
         ELSE [NoResp EXCEPT !.op = "download", !.code = 200, !.job = j,
                             !.output = jobs[j].output_path]

\* the ids a client asks about: the ids handed out, and one that never was
QueryIds == {j \in JobIds : j <= nextId}

JobStatus(j) ==
    /\ loop.pc = "idle"
    /\ resp' = job_status(j)
    /\ UNCHANGED <<jobs, job_queue, now, nextId, pending, loop, worker, reporter, inputs, enq>>
    /\ Sched(LoopThread, TRUE)
    /\ UNCHANGED <<files, pipe, pf>>

Download(j) ==
    /\ loop.pc = "idle"
    /\ resp' = download(j)
    /\ UNCHANGED <<jobs, job_queue, now, nextId, pending, loop, worker, reporter, inputs, enq>>
    /\ Sched(LoopThread, TRUE)
    /\ UNCHANGED <<files, pipe, pf>>

\* ---- the event loop: POST /translate ----
\* translate_presentation is an async handler that calls run_pipeline
\* itself: the pipeline runs on the event loop, in the same directories
\* input/ and output/ as the workers' runs.  Its file and model work lets
\* other threads run, but the loop serves no other request until it returns.

\* the content of the presentation uploaded to /translate
SessionContent == <<"session">>
TranslatePcs == {"tr_extract", "tr_translate", "tr_update"}

\* Lines 70-93: the uploads are saved and run_pipeline is called.
TR_Begin ==
    /\ loop.pc = "idle"
    /\ loop' = [IdleLoop EXCEPT !.pc = "tr_extract"]
    /\ UNCHANGED <<jobs, job_queue, now, nextId, pending, worker, reporter, inputs, enq,
                   files, pipe, pf>>
    /\ Sched(LoopThread, TRUE)
    /\ resp' = NoResp

\* run_pipeline lines 179-195, on the event loop
TR_Extract ==
    /\ loop.pc = "tr_extract"
    /\ files' = [files EXCEPT !.input = SessionContent]
    /\ loop' = [loop EXCEPT !.pc = "tr_translate"]
    /\ UNCHANGED <<jobs, job_queue, now, nextId, pending, worker, reporter, inputs, enq, pipe, pf>>
    /\ Sched(LoopThread, TRUE)
    /\ resp' = NoResp

\* run_pipeline lines 197-222, on the event loop
TR_Translate ==
    /\ loop.pc = "tr_translate"
    /\ files' = [files EXCEPT !.output = files.input]
    /\ loop' = [loop EXCEPT !.pc = "tr_update"]
    /\ UNCHANGED <<jobs, job_queue, now, nextId, pending, worker, reporter, inputs, enq, pipe, pf>>
    /\ Sched(LoopThread, TRUE)
    /\ resp' = NoResp

\* run_pipeline lines 224-233 and api_server lines 102-111: the output pptx
\* is written from output/ and returned.
TR_Return ==
    /\ loop.pc = "tr_update"
    /\ resp' = [NoResp EXCEPT !.op = "translate", !.code = 200, !.output = files.output]
    /\ loop' = IdleLoop
    /\ UNCHANGED <<jobs, job_queue, now, nextId, pending, worker, reporter, inputs, enq,
                   files, pipe, pf>>
    /\ Sched(LoopThread, TRUE)

\* Lines 113-115: run_pipeline raised.
TR_Fail ==
    /\ loop.pc \in TranslatePcs
    /\ resp' = [NoResp EXCEPT !.op = "translate", !.code = 500]
    /\ loop' = IdleLoop
    /\ UNCHANGED <<jobs, job_queue, now, nextId, pending, worker, reporter, inputs, enq,
                   files, pipe, pf>>
    /\ Sched(LoopThread, TRUE)

\* ---- a worker thread: background_translation(job_id = j) ----

\* An exception raised inside the try block (lines 134-190) is caught at
\* line 192; one raised inside the except block ends the thread.
Raise(w, e) ==
    IF w.site = "except"
    THEN [NoWorker EXCEPT !.pc = "crashed"]
    ELSE [NoWorker EXCEPT !.pc = "except", !.exc = e]

\* Lines 136-164: initialise the progress fields and start simulate_progress.
BT_Start(j) ==
    /\ worker[j].pc = "scheduled"
    /\ IF j \in DOMAIN jobs
       THEN /\ jobs' = [jobs EXCEPT ![j] = Put(Put(jobs[j], "current_line", 0), "message", MsgStarting)]
            /\ reporter' = [reporter EXCEPT ![j] = [pc |-> "check", line |-> 0]]
            /\ worker' = [worker EXCEPT ![j] = [NoWorker EXCEPT !.pc = "pipeline", !.site = "try"]]
       ELSE /\ worker' = [worker EXCEPT ![j] = Raise([NoWorker EXCEPT !.site = "try"], ExcKeyError)]
            /\ UNCHANGED <<jobs, reporter>>
    /\ UNCHANGED <<job_queue, now, nextId, pending, loop, inputs, enq>>
    /\ Sched(WorkerThread(j), worker'[j].pc \in WorkerYields)
    /\ UNCHANGED <<files, pipe, pf>>
    /\ resp' = NoResp

\* the completion of a job setting current_line back to 0
BT_Done_resets_line(j) ==
    /\ worker[j].pc = "pipeline"
    /\ IF j \in DOMAIN jobs
       THEN /\ jobs' = [jobs EXCEPT ![j] = Put(Put(Put(jobs[j], "status", "done"), "message", MsgComplete),
                                                "current_line", 0)]
            /\ worker' = [worker EXCEPT ![j].pc = "output"]
       ELSE /\ worker' = [worker EXCEPT ![j] = Raise(worker[j], ExcKeyError)]
            /\ UNCHANGED jobs
    /\ UNCHANGED <<job_queue, now, nextId, pending, loop, reporter, inputs, enq>>
    /\ Sched(WorkerThread(j), worker'[j].pc \in WorkerYields)
    /\ UNCHANGED <<files, pipe, pf>>
    /\ resp' = NoResp

\* Lines 167-176: run_pipeline returns; status and message are set.
BT_Done(j) ==
    /\ worker[j].pc = "pipeline"
    /\ IF j \in DOMAIN jobs
       THEN /\ jobs' = [jobs EXCEPT ![j] = Put(Put(jobs[j], "status", "done"), "message", MsgComplete)]
            /\ worker' = [worker EXCEPT ![j].pc = "output"]
       ELSE /\ worker' = [worker EXCEPT ![j] = Raise(worker[j], ExcKeyError)]
            /\ UNCHANGED jobs
    /\ UNCHANGED <<job_queue, now, nextId, pending, loop, reporter, inputs, enq>>
    /\ Sched(WorkerThread(j), worker'[j].pc \in WorkerYields)
    /\ UNCHANGED <<files, pipe, pf>>
    /\ resp' = NoResp

\* process_queue line 394: the generator starts to iterate jobs.values(); an
\* empty dict ends the iteration at once.
EnterQueue(w, site) ==
    IF DOMAIN jobs' = {}
    THEN [NoWorker EXCEPT !.site = site, !.avail = MAX_CONCURRENT_JOBS,
                          !.pc = IF job_queue # << >> THEN "pq_pop" ELSE "pq_pos"]
    ELSE [NoWorker EXCEPT !.site = site, !.pc = "pq_count", !.n0 = Cardinality(DOMAIN jobs')]

\* Line 177, then the call of process_queue at line 180.
BT_Output(j) ==
    /\ worker[j].pc = "output"
    /\ IF j \in DOMAIN jobs
       THEN /\ jobs' = SetField(jobs, j, "output_path", OutputPath(j))
            /\ worker' = [worker EXCEPT ![j] = EnterQueue(@, "try")]
       ELSE /\ UNCHANGED jobs
            /\ worker' = [worker EXCEPT ![j] = Raise(worker[j], ExcKeyError)]
    /\ UNCHANGED <<job_queue, now, nextId, pending, loop, reporter, inputs, enq>>
    /\ Sched(WorkerThread(j), worker'[j].pc \in WorkerYields)
    /\ UNCHANGED <<files, pipe, pf>>
    /\ resp' = NoResp

\* Lines 192-197: the except block, entered when run_pipeline raises or when
\* any other statement of the try block did; then process_queue at line 197.
\* Only the pipeline runs of the first MaxFailing jobs raise.
BT_Except(j) ==
    \E e \in Exceptions :
        /\ \/ worker[j].pc = "pipeline" /\ e = ExcPipeline /\ j <= MaxFailing
           \/ worker[j].pc = "except" /\ e = worker[j].exc
        /\ IF j \in DOMAIN jobs
           THEN /\ jobs' = [jobs EXCEPT ![j] = Put(Put(jobs[j], "status", "error"), "message", MsgError(e))]
                /\ worker' = [worker EXCEPT ![j] = EnterQueue(@, "except")]
           ELSE /\ UNCHANGED jobs
                /\ worker' = [worker EXCEPT ![j] = [NoWorker EXCEPT !.pc = "crashed"]]
        /\ UNCHANGED <<job_queue, now, nextId, pending, loop, reporter, inputs, enq>>
        /\ Sched(WorkerThread(j), worker'[j].pc \in WorkerYields)
        /\ UNCHANGED <<files, pipe, pf>>
        /\ resp' = NoResp

\* ---- process_queue, run by the worker thread of job j ----

\* the loop condition with a slot count that is one too low
LoopTest_one_short(w, n) ==
    [w EXCEPT !.avail = n, !.popped = 0, !.n0 = 0,
              !.pc = IF job_queue # << >> /\ n > 1 THEN "pq_pop" ELSE "pq_pos"]

\* Line 398: the loop condition, with available_slots = n.
LoopTest(w, n) ==
    [w EXCEPT !.avail = n, !.popped = 0, !.n0 = 0,
              !.pc = IF job_queue # << >> /\ n > 0 THEN "pq_pop" ELSE "pq_pos"]

\* Lines 394-398: the iteration ends and the loop condition is evaluated.  A
\* dict whose size changed under the iterator raises RuntimeError.
PQ_Count(j) ==
    /\ worker[j].pc = "pq_count"
    /\ worker' = [worker EXCEPT ![j] =
                    IF Cardinality(DOMAIN jobs) # @.n0
                    THEN Raise(@, ExcRuntimeError)
                    ELSE LoopTest(@, MAX_CONCURRENT_JOBS - ActiveJobs(jobs))]
    /\ UNCHANGED <<jobs, job_queue, now, nextId, pending, loop, reporter, inputs, enq>>
    /\ Sched(WorkerThread(j), worker'[j].pc \in WorkerYields)
    /\ UNCHANGED <<files, pipe, pf>>
    /\ resp' = NoResp

\* a dropped entry counted against the free slots
PQ_Loop_counts_slot(j) ==
    /\ worker[j].pc = "pq_loop"
    /\ worker' = [worker EXCEPT ![j] = LoopTest(@, @.avail - 1)]
    /\ UNCHANGED <<jobs, job_queue, now, nextId, pending, loop, reporter, inputs, enq>>
    /\ Sched(WorkerThread(j), worker'[j].pc \in WorkerYields)
    /\ UNCHANGED <<files, pipe, pf>>
    /\ resp' = NoResp

\* Line 398, after an entry without a record was dropped.
PQ_Loop(j) ==
    /\ worker[j].pc = "pq_loop"
    /\ worker' = [worker EXCEPT ![j] = LoopTest(@, @.avail)]
    /\ UNCHANGED <<jobs, job_queue, now, nextId, pending, loop, reporter, inputs, enq>>
    /\ Sched(WorkerThread(j), worker'[j].pc \in WorkerYields)
    /\ UNCHANGED <<files, pipe, pf>>
    /\ resp' = NoResp

\* lines 399-403 reading job_queue[0] without removing it
PQ_Pop_peek(j) ==
    /\ worker[j].pc = "pq_pop"
    /\ IF job_queue = << >>
       THEN worker' = [worker EXCEPT ![j] = Raise(@, ExcIndexError)]
       ELSE worker' = [worker EXCEPT ![j] =
                         IF Head(job_queue) \in DOMAIN jobs
                         THEN [@ EXCEPT !.pc = "pq_promote", !.popped = Head(job_queue)]
                         ELSE [@ EXCEPT !.pc = "pq_loop"]]
    /\ UNCHANGED <<jobs, job_queue, now, nextId, pending, loop, reporter, inputs, enq>>
    /\ Sched(WorkerThread(j), worker'[j].pc \in WorkerYields)
    /\ UNCHANGED <<files, pipe, pf>>
    /\ resp' = NoResp

\* Lines 399-403: pop(0), and the test `job_id in jobs`.
PQ_Pop(j) ==
    /\ worker[j].pc = "pq_pop"
    /\ IF job_queue = << >>
       THEN /\ worker' = [worker EXCEPT ![j] = Raise(@, ExcIndexError)]
            /\ UNCHANGED job_queue
       ELSE /\ job_queue' = Tail(job_queue)
            /\ worker' = [worker EXCEPT ![j] =
                            IF Head(job_queue) \in DOMAIN jobs
                            THEN [@ EXCEPT !.pc = "pq_promote", !.popped = Head(job_queue)]
                            ELSE [@ EXCEPT !.pc = "pq_loop"]]
    /\ UNCHANGED <<jobs, now, nextId, pending, loop, reporter, inputs, enq>>
    /\ Sched(WorkerThread(j), worker'[j].pc \in WorkerYields)
    /\ UNCHANGED <<files, pipe, pf>>
    /\ resp' = NoResp

\* Lines 404-424, and the loop condition again: mark the popped job
\* processing and start its thread.
PQ_Promote(j) ==
    /\ worker[j].pc = "pq_promote"
    /\ LET job_id == worker[j].popped
       IN IF job_id \in DOMAIN jobs
          THEN /\ jobs' = [jobs EXCEPT ![job_id] =
                             Put(Put(Put(@, "status", "processing"), "message", MsgStarting),
                                 "queue_position", NoPosition)]
               /\ worker' = [worker EXCEPT
                               ![j] = LoopTest(@, @.avail - 1),
                               ![job_id] = [NoWorker EXCEPT !.pc = "scheduled"]]
          ELSE /\ worker' = [worker EXCEPT ![j] = Raise(@, ExcKeyError)]
               /\ UNCHANGED jobs
    /\ UNCHANGED <<job_queue, now, nextId, pending, loop, reporter, inputs, enq>>
    /\ Sched(WorkerThread(j), worker'[j].pc \in WorkerYields)
    /\ UNCHANGED <<files, pipe, pf>>
    /\ resp' = NoResp

\* Lines 404-421 when thread.start() raises (the interpreter cannot start a new
\* thread): the record is already marked processing, no thread exists for it,
\* and the exception leaves process_queue.
PQ_StartFails(j) ==
    /\ worker[j].pc = "pq_promote"
    /\ LET job_id == worker[j].popped
       IN /\ job_id \in DOMAIN jobs
          /\ jobs' = [jobs EXCEPT ![job_id] =
                        Put(Put(Put(@, "status", "processing"), "message", MsgStarting),
                            "queue_position", NoPosition)]
          /\ worker' = [worker EXCEPT ![j] = Raise(@, ExcThreadError)]
    /\ UNCHANGED <<job_queue, now, nextId, pending, loop, reporter, inputs, enq>>
    /\ Sched(WorkerThread(j), worker'[j].pc \in WorkerYields)
    /\ UNCHANGED <<files, pipe, pf>>
    /\ resp' = NoResp

\* process_queue removing the input files of the entries it renumbers
PQ_Pos_removes_queued(j) ==
    /\ worker[j].pc = "pq_pos"
    /\ LET i == worker[j].idx
       IN IF i < Len(job_queue)
          THEN LET job_id == job_queue[i + 1]
               IN /\ jobs' = IF job_id \in DOMAIN jobs
                             THEN [jobs EXCEPT ![job_id] =
                                     Put(Put(@, "queue_position", i + 1),
                                         "message", MsgQueued(i + 1, Len(job_queue)))]
                             ELSE jobs
                  /\ worker' = [worker EXCEPT ![j].idx = i + 1]
                  /\ inputs' = inputs \ {job_id}
          ELSE /\ worker' = [worker EXCEPT ![j] = [NoWorker EXCEPT !.pc = "finished"]]
               /\ inputs' = inputs \ {j}
               /\ UNCHANGED jobs
    /\ UNCHANGED <<job_queue, now, nextId, pending, loop, reporter, enq>>
    /\ Sched(WorkerThread(j), worker'[j].pc \in WorkerYields)
    /\ UNCHANGED <<files, pipe, pf>>
    /\ resp' = NoResp

\* Lines 427-431: one iteration of the loop that renumbers the queued jobs.
\* When the list iterator is exhausted process_queue returns, and the worker
\* removes its input files (lines 182-190, 199-206) and ends.
PQ_Pos(j) ==
    /\ worker[j].pc = "pq_pos"
    /\ LET i == worker[j].idx
       IN IF i < Len(job_queue)
          THEN LET job_id == job_queue[i + 1]
               IN /\ jobs' = IF job_id \in DOMAIN jobs
                             THEN [jobs EXCEPT ![job_id] =
                                     Put(Put(@, "queue_position", i + 1),
                                         "message", MsgQueued(i + 1, Len(job_queue)))]
                             ELSE jobs
                  /\ worker' = [worker EXCEPT ![j].idx = i + 1]
                  /\ UNCHANGED inputs
          ELSE /\ worker' = [worker EXCEPT ![j] = [NoWorker EXCEPT !.pc = "finished"]]
               /\ inputs' = inputs \ {j}
               /\ UNCHANGED jobs
    /\ UNCHANGED <<job_queue, now, nextId, pending, loop, reporter, enq>>
    /\ Sched(WorkerThread(j), worker'[j].pc \in WorkerYields)
    /\ UNCHANGED <<files, pipe, pf>>
    /\ resp' = NoResp

\* Lines 427-428, step by step: the list iterator hands out the next entry of
\* job_queue, or is exhausted, process_queue returns and the worker removes
\* its input files (lines 182-190, 199-206) and ends.
PQ_PosFetch(j) ==
    /\ worker[j].pc = "pq_pos"
    /\ LET i == worker[j].idx
       IN IF i < Len(job_queue)
          THEN /\ worker' = [worker EXCEPT ![j].pc = "pq_write", ![j].popped = job_queue[i + 1]]
               /\ UNCHANGED inputs
          ELSE /\ worker' = [worker EXCEPT ![j] = [NoWorker EXCEPT !.pc = "finished"]]
               /\ inputs' = inputs \ {j}
    /\ UNCHANGED <<jobs, job_queue, now, nextId, pending, loop, reporter, enq>>
    /\ Sched(WorkerThread(j), worker'[j].pc \in WorkerYields)
    /\ UNCHANGED <<files, pipe, pf>>
    /\ resp' = NoResp

\* Lines 429-431: the position and the message are written into the record
\* of the entry that the iterator handed out.
PQ_PosWrite(j) ==
    /\ worker[j].pc = "pq_write"
    /\ LET i == worker[j].idx
           job_id == worker[j].popped
       IN /\ jobs' = IF job_id \in DOMAIN jobs
                     THEN [jobs EXCEPT ![job_id] =
                             Put(Put(@, "queue_position", i + 1),
                                 "message", MsgQueued(i + 1, Len(job_queue)))]
                     ELSE jobs
          /\ worker' = [worker EXCEPT ![j].pc = "pq_pos", ![j].idx = i + 1, ![j].popped = 0]
    /\ UNCHANGED <<job_queue, now, nextId, pending, loop, reporter, inputs, enq>>
    /\ Sched(WorkerThread(j), worker'[j].pc \in WorkerYields)
    /\ UNCHANGED <<files, pipe, pf>>
    /\ resp' = NoResp

\* ---- the progress thread: simulate_progress of job j ----
\* Only the progress threads of the first MaxReporting jobs get to run.

\* a loop condition that never lets the thread end
RP_Check_spins(j) ==
    /\ j <= MaxReporting
    /\ reporter[j].pc = "check"
    /\ IF j \notin DOMAIN jobs
       THEN reporter' = [reporter EXCEPT ![j].pc = "crashed"]
       ELSE IF jobs[j].status = "processing"
            THEN reporter' = [reporter EXCEPT ![j].pc = "sleep"]
            ELSE reporter' = reporter
    /\ UNCHANGED <<jobs, job_queue, now, nextId, pending, loop, worker, inputs, enq>>
    /\ Sched(ReporterThread(j), reporter'[j].pc \in ReporterYields)
    /\ UNCHANGED <<files, pipe, pf>>
    /\ resp' = NoResp

\* Line 152: the loop condition.  A record that is gone raises KeyError,
\* which ends the thread.
RP_Check(j) ==
    /\ j <= MaxReporting
    /\ reporter[j].pc = "check"
    /\ IF j \notin DOMAIN jobs
       THEN reporter' = [reporter EXCEPT ![j].pc = "crashed"]
       ELSE IF jobs[j].status = "processing"
            THEN reporter' = [reporter EXCEPT ![j].pc = "sleep"]
            ELSE reporter' = [reporter EXCEPT ![j].pc = "stopped"]
    /\ UNCHANGED <<jobs, job_queue, now, nextId, pending, loop, worker, inputs, enq>>
    /\ Sched(ReporterThread(j), reporter'[j].pc \in ReporterYields)
    /\ UNCHANGED <<files, pipe, pf>>
    /\ resp' = NoResp

\* the writes of lines 157-158 creating the record when it is gone
RP_Write_recreates(j) ==
    /\ j <= MaxReporting
    /\ reporter[j].pc = "sleep"
    /\ IF j \in DOMAIN jobs THEN jobs[j].status = "processing" => reporter[j].line < MaxLine ELSE TRUE
    /\ IF j \notin DOMAIN jobs
       THEN /\ reporter' = [reporter EXCEPT ![j] = [pc |-> "check", line |-> @.line + 1]]
            /\ jobs' = Put(jobs, j, [status |-> "processing", message |-> MsgLine(reporter[j].line + 1),
                                     current_line |-> reporter[j].line + 1,
                                     output_path |-> NoPath, created_time |-> now])
       ELSE LET current_line == reporter[j].line + 1
            IN /\ jobs' = [jobs EXCEPT ![j] =
                             Put(Put(@, "current_line", current_line), "message", MsgLine(current_line))]
               /\ reporter' = [reporter EXCEPT ![j] = [pc |-> "check", line |-> current_line]]
    /\ UNCHANGED <<job_queue, now, nextId, pending, loop, worker, inputs, enq>>
    /\ Sched(ReporterThread(j), reporter'[j].pc \in ReporterYields)
    /\ UNCHANGED <<files, pipe, pf>>
    /\ resp' = NoResp

\* Lines 154-158: after the sleep, current_line and message are written.  Once
\* MaxLine lines were reported the sleep lasts until the job has left
\* 'processing'.
RP_Write(j) ==
    /\ j <= MaxReporting
    /\ reporter[j].pc = "sleep"
    /\ IF j \in DOMAIN jobs THEN jobs[j].status = "processing" => reporter[j].line < MaxLine ELSE TRUE
    /\ IF j \notin DOMAIN jobs
       THEN /\ reporter' = [reporter EXCEPT ![j].pc = "crashed"]
            /\ UNCHANGED jobs
       ELSE LET current_line == reporter[j].line + 1
            IN /\ jobs' = [jobs EXCEPT ![j] =
                             Put(Put(@, "current_line", current_line), "message", MsgLine(current_line))]
               /\ reporter' = [reporter EXCEPT ![j] = [pc |-> "check", line |-> current_line]]
    /\ UNCHANGED <<job_queue, now, nextId, pending, loop, worker, inputs, enq>>
    /\ Sched(ReporterThread(j), reporter'[j].pc \in ReporterYields)
    /\ UNCHANGED <<files, pipe, pf>>
    /\ resp' = NoResp

\* ---- run_pipeline, called by the worker of job j (api_server line 167) ----
\* Every call works in the same directories input/ and output/ of the
\* process's working directory; each step is file and model work during
\* which other threads run.

\* Lines 179-195: the content of the job's pptx is extracted into input/.
run_pipeline_extract(j) ==
    /\ worker[j].pc = "pipeline"
    /\ pipe[j].pc = "none"
    /\ files' = [files EXCEPT !.input = Some(j)]
    /\ pipe' = [pipe EXCEPT ![j].pc = "extracted"]
    /\ UNCHANGED <<jobs, job_queue, now, nextId, pending, loop, worker, reporter, inputs, enq, pf>>
    /\ Sched(WorkerThread(j), TRUE)
    /\ resp' = NoResp

\* Lines 197-222: what input/ holds is translated, merged with the glossary
\* terms and cleaned up, into output/.
run_pipeline_translate(j) ==
    /\ worker[j].pc = "pipeline"
    /\ pipe[j].pc = "extracted"
    /\ files' = [files EXCEPT !.output = files.input]
    /\ pipe' = [pipe EXCEPT ![j].pc = "translated"]
    /\ UNCHANGED <<jobs, job_queue, now, nextId, pending, loop, worker, reporter, inputs, enq, pf>>
    /\ Sched(WorkerThread(j), TRUE)
    /\ resp' = NoResp

\* Lines 224-233: the job's output pptx is written from what output/ holds.
run_pipeline_update(j) ==
    /\ worker[j].pc = "pipeline"
    /\ pipe[j].pc = "translated"
    /\ pipe' = [pipe EXCEPT ![j] = [pc |-> "returned", result |-> files.output]]
    /\ UNCHANGED <<jobs, job_queue, now, nextId, pending, loop, worker, reporter, inputs, enq,
                   files, pf>>
    /\ Sched(WorkerThread(j), TRUE)
    /\ resp' = NoResp

\* ---- process_file (Backend/translate_all.py), as test_progress.py calls it ----

\* The lines an input file can hold: whitespace only, a JSON object with a
\* text to translate, the JSON object {}, a JSON number, and text that is
\* not JSON.
LineKinds == {"blank", "record", "empty_object", "scalar", "malformed"}
FileInputs == UNION {[1..n -> LineKinds] : n \in 0..MaxFileLines}

\* process_jsonl_line (lines 76-100): the decoded and translated data, None
\* for a line json.loads rejects; `'data' in data` raises TypeError on a
\* number, which the function does not catch.
process_jsonl_line(line) ==
    CASE line = "record" -> [data |-> "object", exc |-> ExcNone]
      [] line = "empty_object" -> [data |-> "{}", exc |-> ExcNone]
      [] line = "malformed" -> [data |-> "None", exc |-> ExcNone]
      [] OTHER -> [data |-> "None", exc |-> ExcNotIterable]

\* `if processed_data:` (line 118): None and the empty dict are false
Truthy(data) == data = "object"

\* The call: the signature at line 102 takes three positional arguments, so
\* a call with a fourth raises TypeError before the body runs.
PF_Call ==
    /\ pf.pc = "idle"
    /\ \E input \in FileInputs, nargs \in {3, 4} :
          pf' = IF nargs = 3
                THEN [NoCall EXCEPT !.pc = "running", !.nargs = nargs, !.input = input]
                ELSE [NoCall EXCEPT !.pc = "raised", !.nargs = nargs, !.input = input,
                                    !.exc = ExcArguments]
    /\ UNCHANGED <<jobs, job_queue, now, nextId, pending, loop, worker, reporter, inputs, enq,
                   resp, cur, preempts, files, pipe>>

\* Lines 109-121: one iteration of the loop over the lines of the input file.
PF_Line ==
    /\ pf.pc = "running"
    /\ pf.i < Len(pf.input)
    /\ LET line == pf.input[pf.i + 1]
           processed_data == process_jsonl_line(line)
       IN pf' = IF line = "blank"
                THEN [pf EXCEPT !.i = @ + 1]
                ELSE IF processed_data.exc # ExcNone
                THEN [pf EXCEPT !.pc = "raised", !.exc = processed_data.exc]
                ELSE IF Truthy(processed_data.data)
                THEN [pf EXCEPT !.i = @ + 1, !.out = Append(@, pf.i + 1),
                                !.processed_count = @ + 1]
                ELSE [pf EXCEPT !.i = @ + 1]
    /\ UNCHANGED <<jobs, job_queue, now, nextId, pending, loop, worker, reporter, inputs, enq,
                   resp, cur, preempts, files, pipe>>

\* Line 123: return processed_count
PF_Return ==
    /\ pf.pc = "running"
    /\ pf.i = Len(pf.input)
    /\ pf' = [pf EXCEPT !.pc = "returned", !.result = Some(pf.processed_count)]
    /\ UNCHANGED <<jobs, job_queue, now, nextId, pending, loop, worker, reporter, inputs, enq,
                   resp, cur, preempts, files, pipe>>

Worker(j) ==
    \/ BT_Start(j)
    \/ BT_Done(j)
    \/ BT_Output(j)
    \/ BT_Except(j)
    \/ PQ_Count(j)
    \/ PQ_Loop(j)
    \/ PQ_Pop(j)
    \/ PQ_Promote(j)
    \/ PQ_Pos(j)

Reporter(j) == RP_Check(j) \/ RP_Write(j)

\* The scheduler with one more job: submissions, workers and the clock.
NextSched ==
    \/ Tick
    \/ ST_Begin(SchedJobs)
    \/ ST_Resume
    \/ ST_Insert
    \/ ST_Append
    \/ ST_Return
    \/ \E j \in JobIds : Worker(j)

SpecSched == Init /\ [][NextSched]_vars

\* The scheduler and the reaper: submissions, workers and the clock.
NextReap ==
    \/ Tick
    \/ ST_Begin(MaxJobs)
    \/ ST_Resume
    \/ ST_Insert
    \/ ST_Append
    \/ ST_Return
    \/ \E j \in JobIds : Worker(j)

SpecReap == Init /\ [][NextReap]_vars

\* Every started thread keeps being scheduled and every run_pipeline returns
\* or raises; a handler that has the event loop runs to its return.  Clients
\* are free to stop submitting.
FairReap ==
    /\ SpecReap
    /\ \A j \in JobIds : WF_vars(Worker(j))
    /\ WF_vars(ST_Insert \/ ST_Append \/ ST_Return)

\* The scheduler and the reaper on a machine that can run out of threads
\* when a queued job is promoted.
NextLaunch ==
    \/ Tick
    \/ ST_Begin(MaxJobs)
    \/ ST_Resume
    \/ ST_Insert
    \/ ST_Append
    \/ ST_Return
    \/ \E j \in JobIds : Worker(j)
    \/ \E j \in JobIds : PQ_StartFails(j)

SpecLaunch == Init /\ [][NextLaunch]_vars

\* The scheduler, the reaper and the progress threads.
NextProgress ==
    \/ Tick
    \/ ST_Begin(MaxJobs)
    \/ ST_Resume
    \/ ST_Insert
    \/ ST_Append
    \/ ST_Return
    \/ \E j \in JobIds : Worker(j)
    \/ \E j \in JobIds : Reporter(j)

\* Threads keep being scheduled, run_pipeline returns or raises, a sleep
\* ends, and a handler that has the event loop runs to its return.
FairProgress ==
    /\ Init /\ [][NextProgress]_vars
    /\ \A j \in JobIds : WF_vars(Worker(j))
    /\ \A j \in JobIds : WF_vars(Reporter(j))
    /\ WF_vars(ST_Insert \/ ST_Append \/ ST_Return)

\* The scheduler with one more job, with the renumbering loop of
\* process_queue taken statement by statement.
NextRenumber ==
    \/ Tick
    \/ ST_Begin(SchedJobs)
    \/ ST_Resume
    \/ ST_Insert
    \/ ST_Append
    \/ ST_Return
    \/ \E j \in JobIds : BT_Start(j)
    \/ \E j \in JobIds : BT_Done(j)
    \/ \E j \in JobIds : BT_Output(j)
    \/ \E j \in JobIds : BT_Except(j)
    \/ \E j \in JobIds : PQ_Count(j)
    \/ \E j \in JobIds : PQ_Loop(j)
    \/ \E j \in JobIds : PQ_Pop(j)
    \/ \E j \in JobIds : PQ_Promote(j)
    \/ \E j \in JobIds : PQ_PosFetch(j)
    \/ \E j \in JobIds : PQ_PosWrite(j)

SpecRenumber == Init /\ [][NextRenumber]_vars

\* One call of process_file on any input file.
NextFile ==
    \/ PF_Call
    \/ PF_Line
    \/ PF_Return

SpecFile == Init /\ [][NextFile]_vars

\* The whole server.
Next ==
    \/ Tick
    \/ ST_Begin(MaxJobs)
    \/ ST_Resume
    \/ ST_Insert
    \/ ST_Append
    \/ ST_Return
    \/ \E j \in QueryIds : JobStatus(j)
    \/ \E j \in QueryIds : Download(j)
    \/ \E j \in JobIds : Worker(j)
    \/ \E j \in JobIds : Reporter(j)

Spec == Init /\ [][Next]_vars

\* Submissions and the pipeline runs of the jobs they start, up to the return
\* of run_pipeline.
NextPipe ==
    \/ ST_Begin(MaxJobs)
    \/ ST_Resume
    \/ ST_Insert
    \/ ST_Append
    \/ ST_Return
    \/ \E j \in JobIds : BT_Start(j)
    \/ \E j \in JobIds : run_pipeline_extract(j)
    \/ \E j \in JobIds : run_pipeline_translate(j)
    \/ \E j \in JobIds : run_pipeline_update(j)

SpecPipe == Init /\ [][NextPipe]_vars

\* The two ways to run a pipeline, and the status queries.
NextTranslate ==
    \/ ST_Begin(MaxJobs)
    \/ ST_Resume
    \/ ST_Insert
    \/ ST_Append
    \/ ST_Return
    \/ TR_Begin
    \/ TR_Extract
    \/ TR_Translate
    \/ TR_Return
    \/ TR_Fail
    \/ \E j \in QueryIds : JobStatus(j)
    \/ \E j \in JobIds : BT_Start(j)
    \/ \E j \in JobIds : run_pipeline_extract(j)
    \/ \E j \in JobIds : run_pipeline_translate(j)
    \/ \E j \in JobIds : run_pipeline_update(j)

SpecTranslate == Init /\ [][NextTranslate]_vars

\* ---- the claims ----

Records == DOMAIN jobs
StatusOf(j) == IF j \in Records THEN jobs[j].status ELSE "none"
Queued == {j \in Records : jobs[j].status = "queued"}
InQueue == {job_queue[i] : i \in 1..Len(job_queue)}

\* C1: at no instant are more than MAX_CONCURRENT_JOBS records 'processing'.
C1_ConcurrencyCeiling == ActiveJobs(jobs) <= MAX_CONCURRENT_JOBS

\* C2: a job id is in job_queue if and only if the store holds a record for it
\* with status 'queued'.  Stated where every thread is blocked, so that no
\* submission or promotion is half-way.
C2_QueueIsQueued == Quiet => InQueue = Queued

\* C3: FIFO promotion.  Of two jobs that were queued, the one appended to
\* job_queue later is not promoted while the earlier one still waits with
\* status 'queued'.
C3_FifoPromotion ==
    \A a \in 1..Len(enq) : \A b \in 1..Len(enq) :
        (a < b /\ StatusOf(enq[a]) = "queued") => StatusOf(enq[b]) \in {"queued", "none"}

\* C4: a submission is never started at once while a job is still queued: a
\* record is created with status 'processing' only when no record is 'queued'.
C4_NoQueueJump ==
    [][\A j \in JobIds :
          (j \notin Records /\ StatusOf(j)' = "processing") => Queued = {}]_vars

\* C5: every job accepted with status 'queued' eventually reaches status
\* 'processing'.  A job whose record is reaped while it waits is left aside.
C5_QueuedIsPromoted ==
    \A j \in JobIds : (StatusOf(j) = "queued") ~> (StatusOf(j) \in {"processing", "none"})

\* C6: a record's status changes only along queued -> processing,
\* processing -> done and processing -> error; 'done' and 'error' are final
\* for as long as the record exists.
StatusStep(j) ==
    \/ StatusOf(j)' = StatusOf(j)
    \/ StatusOf(j) = "none"
    \/ StatusOf(j)' = "none"
    \/ StatusOf(j) = "queued" /\ StatusOf(j)' = "processing"
    \/ StatusOf(j) = "processing" /\ StatusOf(j)' \in {"done", "error"}
C6_StatusTransitions == [][\A j \in JobIds : StatusStep(j)]_vars

\* C7: whenever no submission or promotion is mid-way, every queued record's
\* queue_position is its rank in job_queue, so the positions are 1..N.
C7_DensePositions ==
    Quiet => /\ \A i \in 1..Len(job_queue) :
                  job_queue[i] \in Queued => jobs[job_queue[i]].queue_position = i
             /\ {jobs[j].queue_position : j \in Queued} = 1..Cardinality(Queued)

\* C8: a status query made more than RetentionWindow after the job was
\* submitted finds no record (404), whatever else happened in between.
C8_EvictedWhenOld ==
    \A j \in Records :
        now - jobs[j].created_time > RetentionWindow => job_status(j).code = 404

\* C9: once a job's pipeline invocation has raised, /job-status returns status
\* 'error' with the failure message until the record is reaped, and /download
\* fails.
C9_ErrorIsKept ==
    (resp.op = "status" /\ resp.status = "error")
        => resp.message \in {MsgError(e) : e \in Exceptions} /\ download(resp.job).code = 404

\* C10: for a job that is 'done' or 'error', /job-status keeps returning the
\* same status and /download the same outcome until the record is reaped.
C10_StableAnswers ==
    [][\A j \in JobIds :
          (StatusOf(j) \in {"done", "error"} /\ j \in DOMAIN jobs')
             => /\ job_status(j)'.status = job_status(j).status
                /\ download(j)' = download(j)]_vars

\* what the caller can tell of a response: its code and its detail
Outcome(r) == <<r.code, r.detail>>

\* C11: /download returns the output reference exactly when the job's status
\* is 'done', fails as not ready for a record with any other status, and
\* fails with a different outcome for an id that has no record.
C11_DownloadOutcomes ==
    \A j \in JobIds :
        /\ StatusOf(j) = "done"
              => download(j).code = 200 /\ download(j).output = jobs[j].output_path
        /\ StatusOf(j) \notin {"done", "none"} => download(j).code = 404
        /\ StatusOf(j) = "none"
              => \A k \in Records :
                    jobs[k].status # "done" => Outcome(download(j)) # Outcome(download(k))

\* C12: a record's output_path is set only while its status is 'done'.
C12_OutputOnlyWhenDone ==
    \A j \in Records : jobs[j].output_path # NoPath => jobs[j].status = "done"

\* C13: a submission made while memory usage is above the threshold is
\* answered 503 and creates no record, no queue entry, no worker and no
\* pending job.
C13_RejectedWhenBusy ==
    [][\A mem \in MemSamples :
          (mem > MemoryRejectThreshold /\ ST_Check(mem, SchedJobs))
             => /\ resp'.op = "start" /\ resp'.code = 503
                /\ DOMAIN jobs' \subseteq DOMAIN jobs
                /\ job_queue' = job_queue
                /\ worker' = worker
                /\ pending' = pending /\ nextId' = nextId]_vars

\* a submission was rejected while records exist and a job waits
C13_Witness ==
    resp.op = "start" /\ resp.code = 503 /\ Records # {} /\ job_queue # << >>

\* C14: a submission made while memory usage is not above the threshold is
\* never rejected, however many jobs are processing or queued; its record is
\* created either 'processing' with a worker or 'queued', and a queued one is
\* appended to job_queue whatever the queue's length.
C14_NeverRejectedOtherwise ==
    [][/\ \A mem \in MemSamples :
             (~(mem > MemoryRejectThreshold) /\ ST_Check(mem, SchedJobs))
                => resp'.code # 503 /\ pending' = pending \cup {nextId}
       /\ (resp'.op = "start" /\ resp'.code = 503 /\ resp' # resp)
             => \E mem \in MemSamples : mem > MemoryRejectThreshold /\ ST_Check(mem, SchedJobs)
       /\ \A j \in JobIds :
             (j \notin Records /\ j \in DOMAIN jobs')
                => \/ jobs'[j].status = "processing" /\ worker'[j].pc = "scheduled"
                   \/ jobs'[j].status = "queued" /\ loop'.pc = "append" /\ loop'.job = j
       /\ (loop.pc = "append" /\ loop' # loop)
             => job_queue' = Append(job_queue, loop.job)]_vars

\* a submission was accepted and queued behind another queued job while
\* MAX_CONCURRENT_JOBS jobs are processing
C14_Witness ==
    /\ resp.op = "start" /\ resp.code = 200 /\ resp.status = "queued"
    /\ Len(job_queue) = 2
    /\ ActiveJobs(jobs) = MAX_CONCURRENT_JOBS

\* C15: a submission's record is created 'processing', with one worker
\* scheduled and 'processing' returned, if fewer than MAX_CONCURRENT_JOBS
\* records are 'processing' at that moment, and 'queued' otherwise; a queued
\* submission appends its id to the tail of job_queue, its queue_position is
\* the new queue length, and 'queued' is returned.
C15_Created(j) ==
    (j \notin Records /\ j \in DOMAIN jobs')
       => IF ActiveJobs(jobs) < MAX_CONCURRENT_JOBS
          THEN /\ jobs'[j].status = "processing"
               /\ worker'[j].pc = "scheduled"
               /\ resp'.op = "start" /\ resp'.job = j /\ resp'.status = "processing"
          ELSE jobs'[j].status = "queued"
C15_Appended(j) ==
    (loop.pc = "append" /\ loop.job = j /\ loop' # loop)
       => /\ job_queue' = Append(job_queue, j)
          /\ j \in DOMAIN jobs'
          /\ jobs'[j].queue_position = Len(job_queue')
C15_Returned(j) ==
    (loop.pc = "return" /\ loop.job = j /\ loop' # loop)
       => resp'.op = "start" /\ resp'.job = j /\ resp'.status = "queued"
C15_SubmitRoutes ==
    [][\A j \in JobIds : C15_Created(j) /\ C15_Appended(j) /\ C15_Returned(j)]_vars

\* C16, scenario A: three jobs are submitted one after the other within the
\* retention window and no other; J1 and J2 are the two admitted first, J3
\* the last.  While J1 and J2 still run, both are 'processing' and J3 is
\* 'queued' with queue_position 1; once J1's worker (either of the two) has
\* completed after that, the other still running, J3 is no longer waiting and
\* job_queue is empty.
ScenarioJobs == {1, 2, 3}
ScenarioA_Only ==
    /\ nextId = 4 /\ pending = {} /\ loop.pc = "idle"
    /\ now <= RetentionWindow
ScenarioA_Submitted ==
    /\ ScenarioA_Only
    /\ \A j \in ScenarioJobs : worker[j].pc \in {"none", "scheduled", "pipeline"}
ScenarioA_Queued(J3) ==
    /\ Records = ScenarioJobs
    /\ \A j \in ScenarioJobs \ {J3} :
          jobs[j].status = "processing" /\ worker[j].pc \in {"scheduled", "pipeline"}
    /\ jobs[J3].status = "queued" /\ jobs[J3].queue_position = 1
    /\ job_queue = <<J3>>
ScenarioA_J1Completed(J1, J2) ==
    /\ ScenarioA_Only
    /\ worker[J1].pc \in {"finished", "crashed"}
    /\ worker[J2].pc \in {"scheduled", "pipeline"}
ScenarioA_Promoted(J3) ==
    /\ StatusOf(J3) \in {"processing", "done", "error"}
    /\ worker[J3].pc # "none"
    /\ job_queue = << >>
C16_ScenarioA ==
    /\ [](ScenarioA_Submitted => \E J3 \in ScenarioJobs : ScenarioA_Queued(J3))
    /\ \A J1 \in ScenarioJobs : \A J2 \in ScenarioJobs \ {J1} : \A J3 \in ScenarioJobs \ {J1, J2} :
          [](ScenarioA_Queued(J3)
                => [](ScenarioA_J1Completed(J1, J2) => ScenarioA_Promoted(J3)))

\* J1 has completed while J2 still runs, and J3, which went through the
\* queue, is processing
C16_Witness ==
    /\ ScenarioA_J1Completed(1, 2)
    /\ enq = <<3>> /\ StatusOf(3) = "processing" /\ StatusOf(1) = "done"
    /\ job_queue = << >>

\* C17: the sweep made at the start of /start-translation removes exactly
\* the records created more than RetentionWindow ago, whatever their status,
\* leaves the others as they are and returns the number removed; no other
\* step removes a record, and none is removed before its window has elapsed.
Removed == DOMAIN jobs \ DOMAIN jobs'
C17_SweepExact ==
    [][/\ \A j \in Removed : now - jobs[j].created_time > RetentionWindow
       /\ Removed # {} => \E mem \in MemSamples : ST_Check(mem, SchedJobs)
       /\ (\E mem \in MemSamples : ST_Check(mem, SchedJobs))
             => /\ Removed = {j \in Records : now - jobs[j].created_time > RetentionWindow}
                /\ \A j \in Records \ Removed : jobs'[j] = jobs[j]
                /\ cleanup_old_jobs_count(jobs, now) = Cardinality(Removed)]_vars

\* a sweep has removed every record, a queued one among them, and the
\* submission that made it was rejected
C17_Witness ==
    /\ resp.op = "start" /\ resp.code = 503
    /\ Records = {} /\ nextId > 1 /\ job_queue # << >>

\* C18: once the sweep has evicted a job, /job-status for its id answers 404
\* 'Job not found', the same outcome as for an id that was never handed out.
C18_EvictedLooksUnknown ==
    [][\A j \in Records :
          (/\ now - jobs[j].created_time > RetentionWindow
           /\ \E mem \in MemSamples : ST_Check(mem, SchedJobs))
             => /\ job_status(j)'.code = 404
                /\ Outcome(job_status(j))' = Outcome(job_status(nextId))']_vars

\* /job-status was asked for an id that had a record and has none any more
C18_Witness ==
    /\ resp.op = "status" /\ resp.code = 404 /\ resp.detail = "Job not found"
    /\ resp.job < nextId /\ resp.job \notin pending /\ resp.job \notin Records
    /\ loop.pc = "idle"

\* C19: a job's worker is started at most once: only for a job that has no
\* worker yet, either by the submission that creates its record or by the
\* promotion of its queued record; run_pipeline is entered only from that
\* start, and a worker that has been started, failed or not, is never started
\* again.
StartedOnce(j) ==
    /\ (worker'[j].pc = "scheduled" /\ worker'[j] # worker[j])
          => /\ worker[j].pc = "none"
             /\ \/ j \notin Records /\ loop.job = j
                \/ StatusOf(j) = "queued" /\ j \notin InQueue
    /\ (worker'[j].pc = "pipeline" /\ worker[j].pc # "pipeline") => worker[j].pc = "scheduled"
    /\ worker[j].pc # "none" => worker'[j].pc \notin {"none", "scheduled"} \/ worker'[j] = worker[j]
C19_StartedOnce == [][\A j \in JobIds : StartedOnce(j)]_vars

\* job 1 failed and its worker has ended; job 3 went through the queue, was
\* promoted and its worker has ended too
C19_Witness ==
    /\ StatusOf(1) = "error" /\ worker[1].pc = "finished"
    /\ Len(enq) > 0 /\ enq[1] = 3
    /\ worker[3].pc = "finished"

\* C20: pipeline invocations running at the same time do not interfere: the
\* output a run_pipeline call has written is made from its own job's input.
C20_OwnInputOnly ==
    \A j \in JobIds : pipe[j].pc = "returned" => pipe[j].result = Some(j)

\* C21: no pipeline execution occupies the event loop, which serves the
\* /job-status queries: whichever endpoint started a run_pipeline call, the
\* loop is never inside it, so a query never waits for a pipeline to finish.
C21_LoopNeverInPipeline == loop.pc \notin TranslatePcs

\* C22: when workers run process_queue at the same time, no call fails on
\* an entry another call has already taken (pop on the emptied list), and a
\* promotion never takes the number of 'processing' records above
\* MAX_CONCURRENT_JOBS.
C22_NoFailedPop == \A j \in JobIds : worker[j].exc # ExcIndexError
C22_PromotionKeepsCeiling ==
    (\E j \in JobIds : worker[j].pc \in {"pq_pop", "pq_promote", "pq_pos"})
        => ActiveJobs(jobs) <= MAX_CONCURRENT_JOBS
C22_ConcurrentDispatch == C22_NoFailedPop /\ C22_PromotionKeepsCeiling

\* C23: simulate_progress writes a record's message and current_line only
\* while the record's status is 'processing'; once the status is 'done' or
\* 'error' no write of the reporter changes the record.
C23_ReporterOnlyWhileProcessing ==
    [][\A j \in JobIds :
          (/\ reporter'[j] # reporter[j]
           /\ j \in Records /\ j \in DOMAIN jobs'
           /\ jobs'[j] # jobs[j])
             => jobs[j].status = "processing"]_vars

\* C24: every worker whose run_pipeline call is under way ends having written
\* the terminal status, called process_queue and removed the job's input
\* files, whether the pipeline returns or raises: the thread reaches the end
\* of background_translation with the inputs gone.
C24_WorkerCompletes ==
    \A j \in JobIds :
        (worker[j].pc = "pipeline") ~> (worker[j].pc = "finished" /\ j \notin inputs)

\* C25: when the thread of a promoted job cannot be started, the job's record
\* goes to 'error' and the next entry is tried: no record is 'processing'
\* without a thread that was started for it.
C25_NoProcessingWithoutWorker ==
    \A j \in Records : jobs[j].status = "processing" => worker[j].pc # "none"

\* C26: the input files of a job are removed at most once, by the worker of
\* that job as it ends, and not while the job is queued or processing; they
\* are written only by the submission that drew the job's id.
C26_InputsRemovedByOwnWorker ==
    [][\A j \in JobIds :
          /\ (j \in inputs /\ j \notin inputs')
                => /\ worker[j].pc \notin {"none", "scheduled", "finished", "crashed"}
                   /\ worker'[j].pc = "finished"
                   /\ StatusOf(j) \notin {"queued", "processing"}
          /\ (j \notin inputs /\ j \in inputs') => j \in pending /\ j \notin pending'
          /\ worker[j].pc = "finished" => worker'[j].pc = "finished"]_vars

C26_Witness ==
    \E j \in JobIds :
        /\ worker[j].pc = "finished" /\ j \notin inputs
        /\ \E k \in inputs : StatusOf(k) = "queued"

\* C27: once the record of a job is gone, the job's simulate_progress thread
\* writes nothing into jobs, the record does not come back, and the next step
\* of the thread ends it.
C27_ReporterLeavesReapedAlone ==
    [][\A j \in JobIds :
          (j \notin Records /\ reporter[j].pc # "none")
             => /\ j \notin DOMAIN jobs'
                /\ reporter'[j] # reporter[j]
                     => reporter'[j].pc = "crashed" /\ jobs' = jobs]_vars

C27_Witness ==
    \E j \in JobIds : j \notin Records /\ reporter[j].pc = "crashed"

\* C28: the simulate_progress thread of a job whose status is 'done' or
\* 'error' eventually ends (of the jobs whose progress thread gets to run).
C28_ReporterStops ==
    \A j \in 1..MaxReporting :
        (reporter[j].pc \in {"check", "sleep"} /\ StatusOf(j) \in {"done", "error"})
            ~> (reporter[j].pc \in {"stopped", "crashed"})

C28_Witness ==
    \E j \in 1..MaxReporting :
        reporter[j].pc = "stopped" /\ StatusOf(j) \in {"done", "error"}

\* C29: the current_line of a record never decreases and, once set, stays
\* set, as long as the record exists; /job-status reports the value that the
\* record holds.
C29_CurrentLineMonotone ==
    [][/\ \A j \in JobIds :
            (j \in Records /\ j \in DOMAIN jobs' /\ "current_line" \in DOMAIN jobs[j])
               => /\ "current_line" \in DOMAIN jobs'[j]
                  /\ jobs'[j].current_line >= jobs[j].current_line
       /\ (resp'.op = "status" /\ resp'.code = 200)
            => resp'.current_line =
                  IF "current_line" \in DOMAIN jobs'[resp'.job]
                  THEN Some(jobs'[resp'.job].current_line) ELSE Absent]_vars

C29_Witness ==
    \E j \in Records :
        /\ "current_line" \in DOMAIN jobs[j] /\ jobs[j].current_line >= 1
        /\ jobs[j].status \in {"done", "error"}
        /\ resp.op = "status" /\ resp.job = j /\ resp.current_line = Some(jobs[j].current_line)

\* C30: a record holds a queue_position (other than None) only while its
\* status is 'queued'.
C30_QueuePositionOnlyQueued ==
    \A j \in Records :
        ("queue_position" \in DOMAIN jobs[j] /\ jobs[j].queue_position # NoPosition)
            => jobs[j].status = "queued"

\* C31: the number of run_pipeline calls under way (workers started and not
\* yet returned) never exceeds MAX_CONCURRENT_JOBS, also when the record of a
\* running job has been removed by cleanup_old_jobs.
Executing == {j \in JobIds : worker[j].pc = "pipeline"}

C31_ExecutingCeiling == Cardinality(Executing) <= MAX_CONCURRENT_JOBS

\* C32: work conservation.  When no submission, completion or promotion is
\* under way (every thread is blocked), a non-empty job_queue means that
\* exactly MAX_CONCURRENT_JOBS records are 'processing'.
C32_WorkConserving ==
    (Quiet /\ job_queue # << >>) => ActiveJobs(jobs) = MAX_CONCURRENT_JOBS

\* C33: a worker whose record was reaped while its run_pipeline call was under
\* way still gets through process_queue and the removal of its input files,
\* and the record does not come back.
C33_ReapedWorkerCompletes ==
    /\ \A j \in JobIds :
          (worker[j].pc = "pipeline" /\ j \notin Records)
              ~> (worker[j].pc = "finished" /\ j \notin inputs)
    /\ [][\A j \in JobIds :
            (j \notin Records /\ worker[j].pc # "none") => j \notin DOMAIN jobs']_vars

\* C34: when process_queue pops an entry whose job has no record, it drops
\* the entry, marks nothing 'processing', starts no thread, keeps its count
\* of free slots, and goes on to the next entry if there is one.
C34_DropsReapedEntry ==
    [][\A j \in JobIds :
          /\ (/\ worker[j].pc = "pq_pop" /\ worker'[j] # worker[j]
              /\ job_queue # << >> /\ Head(job_queue) \notin Records)
                => /\ job_queue' = Tail(job_queue)
                   /\ jobs' = jobs
                   /\ worker'[j].pc = "pq_loop"
                   /\ worker'[j].avail = worker[j].avail
                   /\ \A k \in JobIds \ {j} : worker'[k] = worker[k]
          /\ (worker[j].pc = "pq_loop" /\ worker'[j] # worker[j])
                => /\ jobs' = jobs /\ job_queue' = job_queue
                   /\ worker'[j].avail = worker[j].avail
                   /\ worker'[j].pc = IF job_queue # << >> THEN "pq_pop" ELSE "pq_pos"
                   /\ \A k \in JobIds \ {j} : worker'[k] = worker[k]]_vars

C34_Witness ==
    \E j \in JobIds : worker[j].pc = "pq_loop" /\ job_queue # << >>

\* C35: every /job-status response that carries queue information has
\* 1 <= queue_position <= queue_length.
C35_PositionWithinLength ==
    (resp.op = "status" /\ resp.code = 200 /\ resp.status = "queued"
        /\ resp.queue_position # Absent)
        => /\ resp.queue_length # Absent
           /\ 1 <= resp.queue_position[1]
           /\ resp.queue_position[1] <= resp.queue_length[1]

\* C36: when an accepted submission returns and when a call of process_queue
\* returns, the message of every job that waits in job_queue reads
\* 'Queued: Position K of N' with K its queue_position and N the length of
\* job_queue.
C36_QueuedMessagesCurrent ==
    [][(\/ resp'.op = "start" /\ resp'.code = 200
        \/ \E w \in JobIds : worker[w].pc = "pq_pos" /\ worker'[w].pc = "finished")
          => \A j \in DOMAIN jobs' :
                (jobs'[j].status = "queued" /\ \E i \in 1..Len(job_queue') : job_queue'[i] = j)
                   => jobs'[j].message = MsgQueued(jobs'[j].queue_position, Len(job_queue'))]_vars

\* C37: a sweep of cleanup_old_jobs (the step of a submission that removes
\* records, suspends at the upload or is rejected) only removes records: the records that
\* survive keep all their fields, and job_queue, the worker and progress
\* threads and the input files are as they were.
C37_SweepFrame ==
    [][(\/ \E j \in Records : j \notin DOMAIN jobs'
        \/ \E j \in pending' : j \notin pending
        \/ resp'.op = "start" /\ resp'.code = 503)
          => /\ DOMAIN jobs' \subseteq Records
             /\ \A k \in DOMAIN jobs' : jobs'[k] = jobs[k]
             /\ job_queue' = job_queue
             /\ worker' = worker /\ reporter' = reporter
             /\ inputs' = inputs /\ files' = files /\ pipe' = pipe]_vars

C37_Witness ==
    \E j \in JobIds :
        /\ worker[j].pc = "pipeline" /\ j \notin Records
        /\ \E k \in Records : jobs[k].created_time < now
        /\ job_queue # << >>

\* C38: a submission is rejected (503) exactly when the memory usage read at
\* line 382 is strictly above MemoryRejectThreshold; at the threshold itself
\* it is admitted.
C38_RejectIffAboveThreshold ==
    [][\A mem \in MemSamples :
          ST_Check(mem, SchedJobs)
             => /\ (resp'.op = "start" /\ resp'.code = 503) <=> (mem > MemoryRejectThreshold)
                /\ (mem = MemoryRejectThreshold)
                      => (nextId \in pending' /\ nextId \notin pending /\ resp'.code = 0)]_vars

\* a submission was admitted (MemoryRejectThreshold is the only sample that
\* is not above the threshold) while another job waits in the queue
C38_Witness ==
    pending # {} /\ job_queue # << >> /\ resp.code = 0

\* C39: process_file, called with an input file, an output file, a
\* translator and (as test_progress.py does) a progress callback, returns
\* the number of records it wrote, and wrote one record for each line that is
\* not blank and is valid JSON, in the order of the input.
Expected(input) ==
    SelectSeq([p \in 1..Len(input) |-> p],
              LAMBDA p : input[p] \notin {"blank", "malformed"})

C39_ProcessFileCounts ==
    (pf.nargs = 4)
        => /\ pf.pc # "raised"
           /\ pf.pc = "returned"
                 => /\ pf.out = Expected(pf.input)
                    /\ pf.result = Some(Len(pf.out))

====
